---- MODULE Spec2Model ----
(***************************************************************************)
(* Model of the WhatsForm order API (src/api/index.js): the express        *)
(* handlers and the Google Sheets calls they make.  Every handler is a     *)
(* sequence of steps, one per awaited spreadsheet call: the call's effect  *)
(* on the spreadsheet and the synchronous code that follows it up to the   *)
(* next await happen in one step.  Requests run in slots; several slots    *)
(* in flight at once are concurrent requests on the node event loop.       *)
(*                                                                         *)
(* Strings are sequences of one-character strings, so that parsing,        *)
(* splitting and base64 coding are computed and not assumed.               *)
(***************************************************************************)
EXTENDS Integers, Sequences, FiniteSets, TLC

VARIABLES
    sheetExists,  \* the spreadsheet has a sheet titled "OrderLinks"
    table,        \* the rows of OrderLinks!A:E
    orders,       \* the rows of Sheet1!A:AF of the orders spreadsheet
    custom,       \* the rows appended to the Custom-<key> sheets, in order
    tasks,        \* Custom-<key> appends in flight: async callbacks nobody awaits
    saved,        \* every saveToSheet request that appended rows was answered 200
    proc,         \* "running" | "crashed": the node process
    adminUser,    \* process.env.ADMIN_USERNAME
    adminPass,    \* process.env.ADMIN_PASSWORD
    pc,           \* per slot: where the handler is ("idle": no request)
    arg,          \* per slot: the request (body, params, headers)
    loc,          \* per slot: the handler's local variables
    calls,        \* per slot: the spreadsheet calls made, each with its outcome
    pre,          \* per slot: OrderLinks as it was when an update request arrived
    last,         \* the request answered last: its arg, response, calls and pre
    clean,        \* so far no two requests overlapped and no call failed
    fresh,        \* the run started without an OrderLinks sheet
    committed,    \* the rows appended by generate-link requests answered 200
    lastStatus,   \* per linkId: paymentStatus of the latest update answered 200
                  \* that found rows of the link (Empty: none)
    nreq          \* requests received so far (also the wall clock)

vars == <<sheetExists, table, orders, custom, tasks, saved, proc, adminUser, adminPass,
          pc, arg, loc, calls, pre, last, clean, fresh, committed, lastStatus, nreq>>

sheetVars == <<sheetExists, table>>
saveVars  == <<orders, custom, tasks, saved>>
envVars   == <<adminUser, adminPass>>

----------------------------------------------------------------------------
(* Bounds *)

\* requests received in one run of concurrent requests
MaxReq == 3

\* requests received in one run of requests handled one after the other
MaxSeqReq == 4

\* generate-link requests received in one run of concurrent ones
MaxGenReq == 4

\* saveToSheet requests received in one run
MaxSaveReq == 2

\* requests to the admin routes received in one run
MaxAuthReq == 2

\* saveToSheet and order requests received in one run
MaxOrderReq == 3

Slots == {1, 2}

----------------------------------------------------------------------------
(* Strings *)

Empty == <<>>

\* a hole of a JS array, JSON-encoded as null: the Sheets API skips the cell
NULL == <<"null">>

Digits == <<"0", "1", "2", "3", "4", "5", "6", "7", "8", "9">>

IsDigit(c) == \E i \in 1..10 : Digits[i] = c

DigitVal(c) == (CHOOSE i \in 1..10 : Digits[i] = c) - 1

S_LinkID    == <<"L", "i", "n", "k", " ", "I", "D">>
S_ProductID == <<"P", "r", "o", "d", "u", "c", "t", " ", "I", "D">>
S_Quantity  == <<"Q", "u", "a", "n", "t", "i", "t", "y">>
S_Timestamp == <<"T", "i", "m", "e", "s", "t", "a", "m", "p">>
S_pending   == <<"p", "e", "n", "d", "i", "n", "g">>
S_paid      == <<"p", "a", "i", "d">>
S_failed    == <<"f", "a", "i", "l", "e", "d">>

\* JS numbers: an integer or NaN
Num(n) == [nan |-> FALSE, val |-> n]
NaN    == [nan |-> TRUE, val |-> 0]

JsMul(a, b) == IF a.nan \/ b.nan THEN NaN ELSE Num(a.val * b.val)
JsAdd(a, b) == IF a.nan \/ b.nan THEN NaN ELSE Num(a.val + b.val)

RECURSIVE LeadingDigits(_, _)
\* value of the longest prefix of digits of s, acc the value so far
LeadingDigits(s, acc) ==
    IF s = <<>> \/ ~IsDigit(Head(s)) THEN acc
    ELSE LeadingDigits(Tail(s), 10 * acc + DigitVal(Head(s)))

\* parseInt(s): the leading digits, NaN when s does not start with one
\* (undefined, a missing cell, is Empty here and parses to NaN as well)
ParseInt(s) ==
    IF s = <<>> \/ ~IsDigit(Head(s)) THEN NaN ELSE Num(LeadingDigits(s, 0))

\* parseFloat(s) on strings without a decimal point or exponent
ParseFloat(s) ==
    IF s = <<>> \/ ~IsDigit(Head(s)) THEN NaN ELSE Num(LeadingDigits(s, 0))

----------------------------------------------------------------------------
(* Rows and the spreadsheet calls *)

\* row[j] of JS, 0-based j: undefined (Empty here) past the end
Cell(row, j) == IF j + 1 <= Len(row) THEN row[j + 1] ELSE Empty

RECURSIVE TrimRow(_)
\* the API returns a row without its trailing empty cells
TrimRow(row) ==
    IF row = <<>> THEN <<>>
    ELSE IF row[Len(row)] = Empty THEN TrimRow(SubSeq(row, 1, Len(row) - 1))
    ELSE row

RECURSIVE TrimRows(_)
\* and a range without its trailing empty rows
TrimRows(rows) ==
    IF rows = <<>> THEN <<>>
    ELSE IF rows[Len(rows)] = <<>> THEN TrimRows(SubSeq(rows, 1, Len(rows) - 1))
    ELSE rows

Max(a, b) == IF a >= b THEN a ELSE b

\* values.get of OrderLinks!A:E: response.data.values || []
GetValues(t) == t

\* values.clear of OrderLinks!A:E
ClearValues(t) == <<>>

\* values.update of OrderLinks!A:E with rows: written from row 1 over what the
\* sheet holds; a null cell and a cell past the end of a written row are skipped
UpdateValues(t, rows) ==
    LET n == Max(Len(t), Len(rows))
        old(i, j) == IF i <= Len(t) THEN Cell(t[i], j - 1) ELSE Empty
        w(i) == IF i <= Len(rows) THEN Len(rows[i]) ELSE 0
        h(i) == IF i <= Len(t) THEN Len(t[i]) ELSE 0
        cell(i, j) == IF j <= w(i) /\ rows[i][j] # NULL THEN rows[i][j]
                      ELSE old(i, j)
    IN  TrimRows([i \in 1..n |-> TrimRow([j \in 1..Max(w(i), h(i)) |-> cell(i, j)])])

\* values.append: the rows go below the last row of the sheet that holds data
AppendValues(t, rows) ==
    TrimRows(t \o [i \in 1..Len(rows) |->
                     TrimRow([j \in 1..Len(rows[i]) |->
                                IF rows[i][j] = NULL THEN Empty ELSE rows[i][j]])])

HeaderRow == <<S_LinkID, S_ProductID, S_Quantity, S_Timestamp>>

----------------------------------------------------------------------------
(* The Products sheet (Sheet1!A3:AI), maintained outside this program *)

P1 == <<"P", "1">>
P2 == <<"P", "2">>
P9 == <<"P", "9">>

\* a Products row: id in column 0, name in 1, price in 12
ProductRow(id, name, price) ==
    [j \in 1..13 |-> IF j = 1 THEN id ELSE IF j = 2 THEN name
                     ELSE IF j = 13 THEN price ELSE Empty]

ProductRows ==
    << ProductRow(P1, <<"c", "u", "p">>, <<"1", "0", "0">>),
       ProductRow(P2, <<"p", "e", "n">>, <<"5", "0">>) >>

----------------------------------------------------------------------------
(* Requests *)

NoArg  == [kind |-> "none"]
NoLoc  == [linkId |-> Empty, ts |-> Empty, rows |-> <<>>, status |-> Empty]
NoResp == [code |-> 0, linkId |-> Empty, status |-> Empty,
           products |-> <<>>, total |-> Num(0), token |-> Empty, data |-> <<>>]
NoLast == [arg |-> NoArg, resp |-> NoResp, calls |-> {}, pre |-> <<>>]

Free(r) == pc[r] = "idle"

Quiet == \A r \in Slots : Free(r)

\* a request arrives and takes the lowest free slot; max bounds the run
Receive(r, max) ==
    /\ proc = "running"
    /\ Free(r)
    /\ \A o \in Slots : o < r => ~Free(o)
    /\ nreq < max
    /\ nreq' = nreq + 1
    /\ clean' = (clean /\ Quiet)

\* the handler runs up to its first await
Accept(r, a, to, l, snapshot) ==
    /\ arg' = [arg EXCEPT ![r] = a]
    /\ pc' = [pc EXCEPT ![r] = to]
    /\ loc' = [loc EXCEPT ![r] = l]
    /\ pre' = [pre EXCEPT ![r] = snapshot]
    /\ UNCHANGED <<calls, last>>

\* the handler answers before any await
Reject(r, a, body) ==
    /\ last' = [arg |-> a, resp |-> body, calls |-> {}, pre |-> <<>>]
    /\ UNCHANGED <<pc, arg, loc, calls, pre>>

\* a spreadsheet call returned (call = <<name, outcome>>), the handler runs
\* up to its next await
Continue(r, call, to, l) ==
    /\ proc = "running"
    /\ clean' = (clean /\ call[2] = "ok")
    /\ calls' = [calls EXCEPT ![r] = @ \cup {call}]
    /\ pc' = [pc EXCEPT ![r] = to]
    /\ loc' = [loc EXCEPT ![r] = l]
    /\ UNCHANGED <<arg, pre, last, nreq>>

\* a spreadsheet call returned, the handler answers: res.status(code).json(body)
Finish(r, call, body) ==
    /\ proc = "running"
    /\ clean' = (clean /\ call[2] = "ok")
    /\ last' = [arg |-> arg[r], resp |-> body, calls |-> calls[r] \cup {call},
                pre |-> pre[r]]
    /\ pc' = [pc EXCEPT ![r] = "idle"]
    /\ arg' = [arg EXCEPT ![r] = NoArg]
    /\ loc' = [loc EXCEPT ![r] = NoLoc]
    /\ calls' = [calls EXCEPT ![r] = {}]
    /\ pre' = [pre EXCEPT ![r] = <<>>]
    /\ UNCHANGED nreq

Code(c) == [NoResp EXCEPT !.code = c]

\* outcome of a call that needs nothing of the spreadsheet
Plain(ok) == IF ok THEN "ok" ELSE "error"

\* outcome of a call on a range of the OrderLinks sheet
OnSheet(ok) == IF ~ok THEN "error" ELSE IF ~sheetExists THEN "missing" ELSE "ok"

Called(cs, name) == \E c \in cs : c[1] = name

----------------------------------------------------------------------------
(* POST /api/generate-link *)

\* 8 random bytes in hex; two values stand for the 2^64
LinkIds == {<<"a", "1">>, <<"b", "2">>}

\* new Date().toISOString(): the clock ticks with every request
Clock(n) == <<"T", Digits[n + 1]>>

Item(p, q) == [productId |-> p, quantity |-> q]

Arr(items) == [tag |-> "array", items |-> items]

BodyProducts ==
    { [tag |-> "undefined", items |-> <<>>],
      [tag |-> "object", items |-> <<>>],
      Arr(<<>>),
      Arr(<<Item(P1, <<"2">>), Item(P2, <<"1">>)>>),
      Arr(<<Item(P9, <<"1">>)>>) }

\* the variant a handler without the length test would have
ProductsInvalidNoLength(products) ==
    products.tag = "undefined" \/ products.tag # "array"

\* !products || !Array.isArray(products) || products.length === 0
ProductsInvalid(products) ==
    \/ products.tag = "undefined"
    \/ products.tag # "array"
    \/ Len(products.items) = 0

\* products.map(({productId, quantity}) => [linkId, productId, quantity, timestamp])
LinkRows(products, linkId, ts) ==
    [i \in 1..Len(products.items) |->
        <<linkId, products.items[i].productId, products.items[i].quantity, ts>>]

GLStart(r, max) ==
    \E products \in BodyProducts, id \in LinkIds :
        LET a == [kind |-> "generate-link", products |-> products] IN
        /\ Receive(r, max)
        /\ IF ProductsInvalid(products)
           THEN Reject(r, a, Code(400))
           ELSE Accept(r, a, "gl_check",
                       [NoLoc EXCEPT !.linkId = id, !.ts = Clock(nreq)], <<>>)
        /\ UNCHANGED <<sheetVars, saveVars, envVars, proc, fresh, committed, lastStatus>>

\* sheets.spreadsheets.get and the search for the sheet titled OrderLinks
GLCheck(r, ok) ==
    /\ pc[r] = "gl_check"
    /\ LET call == <<"spreadsheets.get", Plain(ok)>> IN
       IF ok
       THEN Continue(r, call, IF sheetExists THEN "gl_append" ELSE "gl_create", loc[r])
       ELSE Finish(r, call, Code(500))
    /\ UNCHANGED <<sheetVars, saveVars, envVars, proc, fresh, committed, lastStatus>>

\* batchUpdate addSheet: the API refuses a second sheet of the same title
GLCreate(r, ok) ==
    /\ pc[r] = "gl_create"
    /\ LET call == <<"addSheet", IF ~ok THEN "error"
                                 ELSE IF sheetExists THEN "exists" ELSE "ok">> IN
       IF call[2] = "ok"
       THEN /\ sheetExists' = TRUE
            /\ Continue(r, call, "gl_header", loc[r])
       ELSE /\ Finish(r, call, Code(500))
            /\ UNCHANGED sheetExists
    /\ UNCHANGED <<table, saveVars, envVars, proc, fresh, committed, lastStatus>>

\* values.append of the header row to OrderLinks!A1:D1
GLHeader(r, ok) ==
    /\ pc[r] = "gl_header"
    /\ LET call == <<"append header", OnSheet(ok)>> IN
       IF call[2] = "ok"
       THEN /\ table' = AppendValues(table, <<HeaderRow>>)
            /\ Continue(r, call, "gl_append", loc[r])
       ELSE /\ Finish(r, call, Code(500))
            /\ UNCHANGED table
    /\ UNCHANGED <<sheetExists, saveVars, envVars, proc, fresh, committed, lastStatus>>

\* values.append of the product rows to OrderLinks!A:D, then the 200
GLAppend(r, ok) ==
    /\ pc[r] = "gl_append"
    /\ LET call == <<"append rows", OnSheet(ok)>> IN
       IF call[2] = "ok"
       THEN LET rows == LinkRows(arg[r].products, loc[r].linkId, loc[r].ts) IN
            /\ table' = AppendValues(table, rows)
            /\ committed' = committed \cup {rows[i] : i \in 1..Len(rows)}
            /\ Finish(r, call, [Code(200) EXCEPT !.linkId = loc[r].linkId])
       ELSE /\ Finish(r, call, Code(500))
            /\ UNCHANGED <<table, committed>>
    /\ UNCHANGED <<sheetExists, saveVars, envVars, proc, fresh, lastStatus>>

----------------------------------------------------------------------------
(* PUT /api/update-payment-status *)

S_c3 == <<"c", "3">>

UpdateBody(linkId, status) ==
    [kind |-> "update-payment-status", linkId |-> linkId, status |-> status]

\* request bodies: a field that is missing or "" is Empty
UpdateBodies ==
    {UpdateBody(l, s) : l \in LinkIds, s \in {S_paid, S_failed}}
        \cup {UpdateBody(Empty, S_paid), UpdateBody(<<"a", "1">>, Empty),
              UpdateBody(S_LinkID, S_paid)}

\* row[4] = paymentStatus: a row shorter than 4 cells gets holes before it
SetStatus(row, status) ==
    [j \in 1..5 |-> IF j = 5 THEN status
                    ELSE IF j <= Len(row) THEN row[j] ELSE NULL]

\* the variant that forgets the test of row[0]
UpdatedRowsAll(rows, linkId, status) ==
    [i \in 1..Len(rows) |-> SetStatus(rows[i], status)]

\* rows.map(row => { if (row[0] === linkId) row[4] = paymentStatus; return row })
UpdatedRows(rows, linkId, status) ==
    [i \in 1..Len(rows) |->
        IF Cell(rows[i], 0) = linkId THEN SetStatus(rows[i], status) ELSE rows[i]]

UPStart(r, max) ==
    \E a \in UpdateBodies :
        /\ Receive(r, max)
        /\ IF a.linkId = Empty \/ a.status = Empty
           THEN Reject(r, a, Code(400))
           ELSE Accept(r, a, "up_get", NoLoc, table)
        /\ UNCHANGED <<sheetVars, saveVars, envVars, proc, fresh, committed, lastStatus>>

\* values.get of OrderLinks!A:E and the map over the rows
UPGet(r, ok) ==
    /\ pc[r] = "up_get"
    /\ LET call == <<"get OrderLinks", OnSheet(ok)>> IN
       IF call[2] = "ok"
       THEN Continue(r, call, "up_clear",
                     [loc[r] EXCEPT !.rows = UpdatedRows(GetValues(table),
                                                         arg[r].linkId, arg[r].status)])
       ELSE Finish(r, call, Code(500))
    /\ UNCHANGED <<sheetVars, saveVars, envVars, proc, fresh, committed, lastStatus>>

\* values.clear of OrderLinks!A:E
UPClear(r, ok) ==
    /\ pc[r] = "up_clear"
    /\ LET call == <<"clear", OnSheet(ok)>> IN
       IF call[2] = "ok"
       THEN /\ table' = ClearValues(table)
            /\ Continue(r, call, "up_write", loc[r])
       ELSE /\ Finish(r, call, Code(500))
            /\ UNCHANGED table
    /\ UNCHANGED <<sheetExists, saveVars, envVars, proc, fresh, committed, lastStatus>>

\* values.update of OrderLinks!A:E with the mapped rows, then the 200
UPWrite(r, ok) ==
    /\ pc[r] = "up_write"
    /\ LET call == <<"update", OnSheet(ok)>> IN
       IF call[2] = "ok"
       THEN /\ table' = UpdateValues(table, loc[r].rows)
            /\ lastStatus' = IF \E i \in 1..Len(loc[r].rows) :
                                   Cell(loc[r].rows[i], 0) = arg[r].linkId
                              THEN [lastStatus EXCEPT ![arg[r].linkId] = arg[r].status]
                              ELSE lastStatus
            /\ Finish(r, call, Code(200))
       ELSE /\ Finish(r, call, Code(500))
            /\ UNCHANGED <<table, lastStatus>>
    /\ UNCHANGED <<sheetExists, saveVars, envVars, proc, fresh, committed>>

----------------------------------------------------------------------------
(* GET /api/order-link/:linkId *)

ParamLinkIds == LinkIds \cup {S_c3, S_LinkID}

\* linkRows.filter(row => row[0] === linkId)
OrderLinksOf(rows, linkId) == SelectSeq(rows, LAMBDA row : Cell(row, 0) = linkId)

\* undefined | "pending" is the number 0, written here as the string "0"
JsZero == <<"0">>

\* the variant that reads the status of the last matching row
PaymentStatusOfLast(orderLinks) ==
    IF Len(orderLinks) > 0
    THEN IF Cell(orderLinks[Len(orderLinks)], 4) # Empty
         THEN Cell(orderLinks[Len(orderLinks)], 4) ELSE S_pending
    ELSE JsZero

\* orderLinks.length > 0 ? orderLinks[0][4] || "pending" : orderLinks[4] | "pending"
PaymentStatusOf(orderLinks) ==
    IF Len(orderLinks) > 0
    THEN IF Cell(orderLinks[1], 4) # Empty THEN Cell(orderLinks[1], 4) ELSE S_pending
    ELSE JsZero

\* productsMap.has(id): some Products row has id in column 0
HasProduct(productRows, id) ==
    \E i \in 1..Len(productRows) : Cell(productRows[i], 0) = id

\* productsMap.get(id): new Map(pairs) keeps the last pair of a key
GetProduct(productRows, id) ==
    LET i == CHOOSE k \in 1..Len(productRows) :
                /\ Cell(productRows[k], 0) = id
                /\ \A m \in (k + 1)..Len(productRows) : Cell(productRows[m], 0) # id
    IN  [id |-> Cell(productRows[i], 0), price |-> ParseFloat(Cell(productRows[i], 12))]

\* orderLinks.map(link => ({...product, quantity: parseInt(quantity)}))
OrderProducts(orderLinks, productRows) ==
    [i \in 1..Len(orderLinks) |->
        LET p == GetProduct(productRows, Cell(orderLinks[i], 1))
        IN  [id |-> p.id, price |-> p.price,
             quantity |-> ParseInt(Cell(orderLinks[i], 2))]]

RECURSIVE Reduce(_, _)
RECURSIVE TotalAmountOfPrices(_)
\* the variant that adds the prices and forgets the quantities
TotalAmountOfPrices(items) ==
    IF items = <<>> THEN Num(0)
    ELSE JsAdd(TotalAmountOfPrices(Tail(items)), Head(items).price)

\* orderProducts.reduce((sum, item) => sum + item.price * item.quantity, 0)
Reduce(items, sum) ==
    IF items = <<>> THEN sum
    ELSE Reduce(Tail(items), JsAdd(sum, JsMul(Head(items).price, Head(items).quantity)))

TotalAmount(items) == Reduce(items, Num(0))

OLStart(r, max) ==
    \E linkId \in ParamLinkIds :
        /\ Receive(r, max)
        /\ Accept(r, [kind |-> "order-link", linkId |-> linkId], "ol_links", NoLoc, <<>>)
        /\ UNCHANGED <<sheetVars, saveVars, envVars, proc, fresh, committed, lastStatus>>

\* the variant that reads Products before it looks at the rows found
OLLinksNo404(r, ok) ==
    /\ pc[r] = "ol_links"
    /\ LET call == <<"get OrderLinks", OnSheet(ok)>>
           orderLinks == OrderLinksOf(GetValues(table), arg[r].linkId) IN
       IF call[2] = "ok"
       THEN Continue(r, call, "ol_products",
                     [loc[r] EXCEPT !.rows = orderLinks,
                                    !.status = PaymentStatusOf(orderLinks)])
       ELSE Finish(r, call, Code(500))
    /\ UNCHANGED <<sheetVars, saveVars, envVars, proc, fresh, committed, lastStatus>>

\* values.get of OrderLinks!A:E, the filter, the status and the 404
OLLinks(r, ok) ==
    /\ pc[r] = "ol_links"
    /\ LET call == <<"get OrderLinks", OnSheet(ok)>>
           orderLinks == OrderLinksOf(GetValues(table), arg[r].linkId) IN
       IF call[2] = "ok"
       THEN IF Len(orderLinks) = 0
            THEN Finish(r, call, Code(404))
            ELSE Continue(r, call, "ol_products",
                          [loc[r] EXCEPT !.rows = orderLinks,
                                         !.status = PaymentStatusOf(orderLinks)])
       ELSE Finish(r, call, Code(500))
    /\ UNCHANGED <<sheetVars, saveVars, envVars, proc, fresh, committed, lastStatus>>

\* values.get of the Products sheet, the join, the total and the 200
OLProducts(r, ok) ==
    /\ pc[r] = "ol_products"
    /\ LET call == <<"get Products", Plain(ok)>>
           orderLinks == loc[r].rows IN
       IF ok /\ \A i \in 1..Len(orderLinks) :
                    HasProduct(ProductRows, Cell(orderLinks[i], 1))
       THEN LET orderProducts == OrderProducts(orderLinks, ProductRows) IN
            Finish(r, call, [NoResp EXCEPT !.code = 200, !.linkId = arg[r].linkId,
                                           !.status = loc[r].status,
                                           !.products = orderProducts,
                                           !.total = TotalAmount(orderProducts)])
       ELSE Finish(r, call, Code(500))
    /\ UNCHANGED <<sheetVars, saveVars, envVars, proc, fresh, committed, lastStatus>>

----------------------------------------------------------------------------
(* POST /api/saveToSheet *)

S_pickUpCode == <<"1", "3", "5", "5", "6", "4", "5", "4">>
S_India      == <<"I", "n", "d", "i", "a">>

\* the flat fields of the body, shared by all product lines
Payload(orderId, multiple) ==
    [orderId |-> orderId, phoneNumber |-> <<"9", "1">>, firstName |-> <<"f", "n">>,
     lastName |-> <<"l", "n">>, email |-> <<"e", "@">>,
     shippingAddressLine1 |-> <<"s", "1">>, shippingAddressLine2 |-> <<"s", "2">>,
     shippingPincode |-> <<"4", "1">>, shippingCity |-> <<"s", "c">>,
     shippingState |-> <<"s", "s">>,
     billingAddressLine1 |-> <<"b", "1">>, billingAddressLine2 |-> <<"b", "2">>,
     billingPincode |-> <<"4", "2">>, billingCity |-> <<"b", "c">>,
     billingState |-> <<"b", "s">>,
     PaymentMethod |-> <<"U", "P", "I">>, COD |-> <<"n", "o">>,
     totalAmount |-> <<"2", "5", "0">>, paymentId |-> <<"p", "a", "y">>,
     isThisMultipleProductOrder |-> multiple, timestamp |-> <<"T", "9">>]

Line(name, price, quantity) ==
    [name |-> name, price |-> price, quantity |-> quantity, SKU |-> <<"k">>,
     weight |-> <<"1">>, length |-> <<"2">>, breadth |-> <<"3">>, height |-> <<"4">>]

\* one row of Sheet1 for a product line: 33 cells, orderId first
OrderRow(b, product) ==
    << b.orderId, S_pickUpCode, b.phoneNumber, b.firstName, b.lastName, b.email,
       b.shippingAddressLine1, b.shippingAddressLine2, b.shippingPincode,
       b.shippingCity, b.shippingState, S_India,
       b.billingAddressLine1, b.billingAddressLine2, b.billingPincode,
       b.billingCity, b.billingState, S_India,
       product.name, product.price, product.quantity, product.SKU,
       b.PaymentMethod, b.COD, b.totalAmount,
       product.weight, product.length, product.breadth, product.height,
       Empty, b.paymentId, b.isThisMultipleProductOrder, b.timestamp >>

\* products?.length > 0 && products.forEach(product => productRows.push([...]))
OrderRows(b, products) ==
    IF products.tag = "array"
    THEN [i \in 1..Len(products.items) |-> OrderRow(b, products.items[i])]
    ELSE <<>>

\* Object.keys(customizationDetails) throws a TypeError on undefined
KeysThrows(details) == details.tag = "undefined"

SaveProducts ==
    { [tag |-> "undefined", items |-> <<>>],
      Arr(<<>>),
      Arr(<<Line(<<"c", "u", "p">>, <<"1", "0", "0">>, <<"2">>)>>),
      Arr(<<Line(<<"c", "u", "p">>, <<"1", "0", "0">>, <<"2">>),
            Line(<<"p", "e", "n">>, <<"5", "0">>, <<"1">>)>>) }

Custom(entries) == [tag |-> "object", entries |-> entries]

\* customizationDetails: absent, {}, or a mapping from a key to detail rows
SaveCustom ==
    { [tag |-> "undefined", entries |-> <<>>],
      Custom(<<>>),
      Custom(<< [key |-> <<"m", "u", "g">>, rows |-> << <<<<"r", "e", "d">>>> >>] >>),
      Custom(<< [key |-> <<"m", "u", "g">>, rows |-> << <<<<"r", "e", "d">>>> >>],
                [key |-> <<"c", "a", "p">>, rows |-> << <<<<"X", "L">>>> >>] >>) }

SaveBodies ==
    { [kind |-> "saveToSheet", body |-> Payload(o, <<"n", "o">>), products |-> p,
       custom |-> c] :
        o \in {<<"o", "1">>, <<"o", "2">>}, p \in SaveProducts, c \in SaveCustom }

SVStart(r, max) ==
    \E a \in SaveBodies :
        /\ Receive(r, max)
        /\ Accept(r, a, "sv_check", NoLoc, orders)
        /\ UNCHANGED <<sheetVars, saveVars, envVars, proc, fresh, committed, lastStatus>>

\* sheets.spreadsheets.get of the orders spreadsheet, to see that it is reachable
SVCheck(r, ok) ==
    /\ pc[r] = "sv_check"
    /\ LET call == <<"spreadsheets.get", Plain(ok)>> IN
       IF ok THEN Continue(r, call, "sv_append", loc[r])
       ELSE Finish(r, call, Code(500))
    /\ UNCHANGED <<sheetVars, saveVars, envVars, proc, fresh, committed, lastStatus>>

\* the customization appends started by
\* Object.keys(customizationDetails).forEach(async key => { await append })
CustomTasks(n, details) ==
    {[req |-> n, key |-> details.entries[i].key, rows |-> details.entries[i].rows] :
        i \in 1..Len(details.entries)}

\* values.append of the product rows to Sheet1!A:AF; then the customization
\* appends are started, none awaited, and the 200 is sent
SVAppend(r, ok) ==
    /\ pc[r] = "sv_append"
    /\ LET call == <<"append orders", Plain(ok)>> IN
       IF ~ok
       THEN /\ Finish(r, call, Code(500))
            /\ UNCHANGED <<orders, tasks, saved>>
       ELSE /\ orders' = orders \o OrderRows(arg[r].body, arg[r].products)
            /\ IF KeysThrows(arg[r].custom)
               THEN /\ Finish(r, call, Code(500))
                    /\ saved' = FALSE
                    /\ UNCHANGED tasks
               ELSE /\ tasks' = tasks \cup CustomTasks(nreq, arg[r].custom)
                    /\ Finish(r, call, Code(200))
                    /\ UNCHANGED saved
    /\ UNCHANGED <<sheetVars, custom, envVars, proc, fresh, committed, lastStatus>>

\* the append to Custom-<key>!A:Z of one callback returns.  It throws when the
\* sheet Custom-<key> does not exist or the call fails: the callback's promise
\* is rejected and nothing handles it, which ends the process on node 15 and
\* later (crash) and prints a warning on older ones
CustomAppend(t, ok, crash) ==
    /\ proc # "crashed"
    /\ t \in tasks
    /\ tasks' = tasks \ {t}
    /\ IF ok
       THEN /\ custom' = Append(custom, [key |-> t.key, rows |-> t.rows])
            /\ UNCHANGED proc
       ELSE /\ proc' = IF crash THEN "crashed" ELSE "warned"
            /\ UNCHANGED custom
    /\ UNCHANGED <<sheetVars, orders, saved, envVars, pc, arg, loc, calls, pre, last,
                   clean, fresh, committed, lastStatus, nreq>>

----------------------------------------------------------------------------
(* GET /api/order/:orderId *)

\* the range Sheet1!A:AF has the columns A to AF
ColumnsAtoAF == 32

Min(a, b) == IF a <= b THEN a ELSE b

\* values.get of Sheet1!A:AF: response.data.values || [].  Each row comes
\* with the cells of the columns of the range only, trailing empty ones left out
GetOrders(t) ==
    TrimRows([i \in 1..Len(t) |->
                 TrimRow(SubSeq(t[i], 1, Min(Len(t[i]), ColumnsAtoAF)))])

\* rows.find(row => row[0] === orderId): the index of the first such row, 0
\* for undefined
Find(rows, orderId) ==
    LET at == {i \in 1..Len(rows) : Cell(rows[i], 0) = orderId} IN
    IF at = {} THEN 0 ELSE CHOOSE i \in at : \A j \in at : i <= j

\* n || 0
OrZero(n) == IF n.nan THEN Num(0) ELSE n

\* the order object mapped from a row
OrderData(orderRow) ==
    [orderId |-> Cell(orderRow, 0),
     pickUpCode |-> Cell(orderRow, 1),
     phoneNumber |-> Cell(orderRow, 2),
     firstName |-> Cell(orderRow, 3),
     lastName |-> Cell(orderRow, 4),
     email |-> Cell(orderRow, 5),
     shippingAddress |->
        [addressLine1 |-> Cell(orderRow, 6), addressLine2 |-> Cell(orderRow, 7),
         pincode |-> Cell(orderRow, 8), city |-> Cell(orderRow, 9),
         state |-> Cell(orderRow, 10), country |-> Cell(orderRow, 11)],
     billingAddress |->
        [addressLine1 |-> Cell(orderRow, 12), addressLine2 |-> Cell(orderRow, 13),
         pincode |-> Cell(orderRow, 14), city |-> Cell(orderRow, 15),
         state |-> Cell(orderRow, 16), country |-> Cell(orderRow, 17)],
     product |->
        [name |-> Cell(orderRow, 18),
         unitPrice |-> OrZero(ParseFloat(Cell(orderRow, 19))),
         quantity |-> OrZero(ParseInt(Cell(orderRow, 20))),
         SKU |-> Cell(orderRow, 21)],
     payment |->
        [method |-> Cell(orderRow, 22), COD |-> Cell(orderRow, 23),
         totalAmount |-> OrZero(ParseFloat(Cell(orderRow, 24))),
         paymentId |-> Cell(orderRow, 30)],
     shipping |->
        [weight |-> OrZero(ParseFloat(Cell(orderRow, 25))),
         dimensions |->
            [length |-> OrZero(ParseFloat(Cell(orderRow, 26))),
             breadth |-> OrZero(ParseFloat(Cell(orderRow, 27))),
             height |-> OrZero(ParseFloat(Cell(orderRow, 28)))],
         courierId |-> Cell(orderRow, 29)],
     isMultipleProductOrder |-> Cell(orderRow, 31),
     timestamp |-> Cell(orderRow, 32)]

\* req.params.orderId: the ids saveToSheet requests carry and one they do not
ParamOrderIds == {<<"o", "1">>, <<"o", "2">>, <<"o", "3">>}

ODStart(r, max) ==
    \E id \in ParamOrderIds :
        /\ Receive(r, max)
        /\ Accept(r, [kind |-> "order", orderId |-> id], "od_read", NoLoc, orders)
        /\ UNCHANGED <<sheetVars, saveVars, envVars, proc, fresh, committed, lastStatus>>

\* values.get of Sheet1!A:AF returns: 404 without a row of the orderId, else
\* the first such row as an order object
ODRead(r, ok) ==
    /\ pc[r] = "od_read"
    /\ LET call == <<"get orders", Plain(ok)>>
           rows == GetOrders(orders)
           at   == Find(rows, arg[r].orderId)
       IN  IF ~ok THEN Finish(r, call, Code(500))
           ELSE IF at = 0 THEN Finish(r, call, Code(404))
           ELSE Finish(r, call, [NoResp EXCEPT !.code = 200,
                                               !.data = OrderData(rows[at])])
    /\ UNCHANGED <<sheetVars, saveVars, envVars, proc, fresh, committed, lastStatus>>

----------------------------------------------------------------------------
(* base64 and the strings of the admin routes *)

Base64Chars ==
    << "A", "B", "C", "D", "E", "F", "G", "H", "I", "J", "K", "L", "M",
       "N", "O", "P", "Q", "R", "S", "T", "U", "V", "W", "X", "Y", "Z",
       "a", "b", "c", "d", "e", "f", "g", "h", "i", "j", "k", "l", "m",
       "n", "o", "p", "q", "r", "s", "t", "u", "v", "w", "x", "y", "z",
       "0", "1", "2", "3", "4", "5", "6", "7", "8", "9", "+", "/" >>

\* the characters credentials are made of, with their codes
CharCodes == << <<"u", 117>>, <<"p", 112>>, <<":", 58>> >>

CodeOf(c) == (CHOOSE i \in 1..Len(CharCodes) : CharCodes[i][1] = c) \* index
ByteOf(c) == CharCodes[CodeOf(c)][2]

\* Buffer.from(string): the bytes of the characters
BytesOf(s) == [i \in 1..Len(s) |-> ByteOf(s[i])]

\* buffer.toString(): the characters of the bytes, U+FFFD ("?") for the rest
CharOf(b) ==
    IF \E i \in 1..Len(CharCodes) : CharCodes[i][2] = b
    THEN CharCodes[CHOOSE i \in 1..Len(CharCodes) : CharCodes[i][2] = b][1]
    ELSE "?"

StringOf(bytes) == [i \in 1..Len(bytes) |-> CharOf(bytes[i])]

RECURSIVE Base64Encode(_)
\* buffer.toString("base64"): 3 bytes make 4 characters, "=" pads the end
Base64Encode(bytes) ==
    LET ch(n) == Base64Chars[n + 1] IN
    IF Len(bytes) = 0 THEN <<>>
    ELSE IF Len(bytes) = 1
    THEN << ch(bytes[1] \div 4), ch((bytes[1] % 4) * 16), "=", "=" >>
    ELSE IF Len(bytes) = 2
    THEN << ch(bytes[1] \div 4), ch((bytes[1] % 4) * 16 + bytes[2] \div 16),
            ch((bytes[2] % 16) * 4), "=" >>
    ELSE << ch(bytes[1] \div 4), ch((bytes[1] % 4) * 16 + bytes[2] \div 16),
            ch((bytes[2] % 16) * 4 + bytes[3] \div 64), ch(bytes[3] % 64) >>
         \o Base64Encode(SubSeq(bytes, 4, Len(bytes)))

IsBase64Char(c) == \E i \in 1..64 : Base64Chars[i] = c

Base64Val(c) == (CHOOSE i \in 1..64 : Base64Chars[i] = c) - 1

RECURSIVE Sextets(_)
\* the decoder skips a character that is no base64 digit and stops at "="
Sextets(s) ==
    IF s = <<>> \/ Head(s) = "=" THEN <<>>
    ELSE IF IsBase64Char(Head(s)) THEN <<Base64Val(Head(s))>> \o Sextets(Tail(s))
    ELSE Sextets(Tail(s))

RECURSIVE SextetBytes(_)
\* 4 digits make 3 bytes; 2 or 3 digits at the end make 1 or 2
SextetBytes(v) ==
    IF Len(v) <= 1 THEN <<>>
    ELSE IF Len(v) = 2 THEN << v[1] * 4 + v[2] \div 16 >>
    ELSE IF Len(v) = 3
    THEN << v[1] * 4 + v[2] \div 16, (v[2] % 16) * 16 + v[3] \div 4 >>
    ELSE << v[1] * 4 + v[2] \div 16, (v[2] % 16) * 16 + v[3] \div 4,
            (v[3] % 4) * 64 + v[4] >> \o SextetBytes(SubSeq(v, 5, Len(v)))

\* Buffer.from(token, "base64")
Base64Decode(s) == SextetBytes(Sextets(s))

RECURSIVE Split(_, _)
\* s.split(sep) for a separator of one character
Split(s, sep) ==
    LET at == {i \in 1..Len(s) : s[i] = sep} IN
    IF at = {} THEN <<s>>
    ELSE LET i == CHOOSE k \in at : \A m \in at : k <= m
         IN  <<SubSeq(s, 1, i - 1)>> \o Split(SubSeq(s, i + 1, Len(s)), sep)

\* s.startsWith(prefix)
StartsWith(s, prefix) ==
    Len(s) >= Len(prefix) /\ SubSeq(s, 1, Len(prefix)) = prefix

\* parts[i] of JS, 0-based: undefined (Empty here) past the end
Part(parts, i) == IF i + 1 <= Len(parts) THEN parts[i + 1] ELSE Empty

S_Bearer == <<"B", "e", "a", "r", "e", "r", " ">>
S_Basic  == <<"B", "a", "s", "i", "c", " ">>

\* Buffer.from(`${username}:${password}`).toString("base64")
Token(username, password) == Base64Encode(BytesOf(username \o <<":">> \o password))

----------------------------------------------------------------------------
(* POST /api/admin/login *)

\* credentials over the alphabet u p :
CredStrings ==
    { <<"u">>, <<"p">>, <<"u", "p">>, <<"p", ":">>, <<":", "u">> }

Login(r, max) ==
    \E username \in CredStrings, password \in CredStrings :
        LET a == [kind |-> "login", username |-> username, password |-> password] IN
        /\ Receive(r, max)
        /\ IF username = adminUser /\ password = adminPass
           THEN Reject(r, a, [Code(200) EXCEPT !.token = Token(username, password)])
           ELSE Reject(r, a, Code(401))
        /\ UNCHANGED <<sheetVars, saveVars, envVars, proc, fresh, committed, lastStatus>>

----------------------------------------------------------------------------
(* GET /api/products behind authenticateAdmin *)

\* without the "=" that pad it
Unpadded(token) == SelectSeq(token, LAMBDA c : c # "=")

\* Authorization headers (Empty: no header): the token of any credentials after
\* Bearer, and variations of the token of the configured ones
Headers ==
    LET good == Token(adminUser, adminPass) IN
    {S_Bearer \o Token(u, p) : u \in CredStrings, p \in CredStrings}
        \cup { Empty, S_Basic \o good, S_Bearer \o good \o <<" ", "x">>,
               S_Bearer \o Unpadded(good), S_Bearer \o <<" ">> \o good }

\* authenticateAdmin calls next(): the header starts with "Bearer ", and its
\* second word, base64-decoded and split at ":", starts with the credentials
Authenticated(authHeader) ==
    /\ authHeader # Empty
    /\ StartsWith(authHeader, S_Bearer)
    /\ LET token == Part(Split(authHeader, " "), 1)
           parts == Split(StringOf(Base64Decode(token)), ":")
       IN  /\ Part(parts, 0) = adminUser
           /\ Part(parts, 1) = adminPass

GPStart(r, max) ==
    \E h \in Headers :
        LET a == [kind |-> "products", header |-> h] IN
        /\ Receive(r, max)
        /\ IF Authenticated(h)
           THEN Accept(r, a, "gp_read", NoLoc, <<>>)
           ELSE Reject(r, a, Code(401))
        /\ UNCHANGED <<sheetVars, saveVars, envVars, proc, fresh, committed, lastStatus>>

\* values.get of the Products sheet and the 200 with the product list
GPRead(r, ok) ==
    /\ pc[r] = "gp_read"
    /\ LET call == <<"get Products", Plain(ok)>> IN
       IF ok
       THEN Finish(r, call, [Code(200) EXCEPT !.products =
                               [i \in 1..Len(ProductRows) |->
                                  [id |-> Cell(ProductRows[i], 0),
                                   price |-> ParseFloat(Cell(ProductRows[i], 12))]]])
       ELSE Finish(r, call, Code(500))
    /\ UNCHANGED <<sheetVars, saveVars, envVars, proc, fresh, committed, lastStatus>>

----------------------------------------------------------------------------
(* Initial states *)

\* OrderLinks as the program leaves it, and as people editing the sheet may
InitialSheets ==
    { [exists |-> FALSE, rows |-> <<>>],
      [exists |-> TRUE, rows |-> <<>>],
      [exists |-> TRUE,
       rows |-> << HeaderRow,
                   << <<"a", "1">>, P1, <<"3">>, <<"T", "0">>, S_failed >>,
                   << >>,
                   << <<"b", "2">> >>,
                   << <<"d", "4">>, P2, <<"1">>, <<"T", "0">> >> >>] }

StatusKeys == LinkIds \cup {S_LinkID}

InitCommon ==
    /\ orders = <<>>
    /\ custom = <<>>
    /\ tasks = {}
    /\ saved = TRUE
    /\ proc = "running"
    /\ pc = [r \in Slots |-> "idle"]
    /\ arg = [r \in Slots |-> NoArg]
    /\ loc = [r \in Slots |-> NoLoc]
    /\ calls = [r \in Slots |-> {}]
    /\ pre = [r \in Slots |-> <<>>]
    /\ last = NoLast
    /\ clean = TRUE
    /\ committed = {}
    /\ lastStatus = [k \in StatusKeys |-> Empty]
    /\ nreq = 0

InitEnv ==
    /\ adminUser = <<"u">>
    /\ adminPass = <<"p">>

InitFresh ==
    /\ InitCommon
    /\ InitEnv
    /\ sheetExists = FALSE
    /\ table = <<>>
    /\ fresh = TRUE

InitLinks ==
    /\ InitCommon
    /\ InitEnv
    /\ \E s \in InitialSheets :
          /\ sheetExists = s.exists
          /\ table = s.rows
          /\ fresh = ~s.exists

----------------------------------------------------------------------------
(* Requests handled one after the other, calls that may fail *)

NextSeq ==
    \/ GLStart(1, MaxSeqReq)
    \/ UPStart(1, MaxSeqReq)
    \/ OLStart(1, MaxSeqReq)
    \/ \E ok \in BOOLEAN :
          \/ GLCheck(1, ok)
          \/ GLCreate(1, ok)
          \/ GLHeader(1, ok)
          \/ GLAppend(1, ok)
          \/ UPGet(1, ok)
          \/ UPClear(1, ok)
          \/ UPWrite(1, ok)
          \/ OLLinks(1, ok)
          \/ OLProducts(1, ok)

SpecSeq == InitLinks /\ [][NextSeq]_vars

----------------------------------------------------------------------------
(* Concurrent generate-link and update-payment-status requests *)

NextLinks ==
    \E r \in Slots :
        \/ GLStart(r, MaxReq)
        \/ UPStart(r, MaxReq)
        \/ \E ok \in BOOLEAN :
              \/ GLCheck(r, ok)
              \/ GLCreate(r, ok)
              \/ GLHeader(r, ok)
              \/ GLAppend(r, ok)
              \/ UPGet(r, ok)
              \/ UPClear(r, ok)
              \/ UPWrite(r, ok)

SpecLinks == InitFresh /\ [][NextLinks]_vars

----------------------------------------------------------------------------
(* Concurrent generate-link requests on a spreadsheet without OrderLinks; no  *)
(* call fails but the one the API refuses                                    *)

NextGen ==
    \E r \in Slots :
        \/ GLStart(r, MaxGenReq)
        \/ GLCheck(r, TRUE)
        \/ GLCreate(r, TRUE)
        \/ GLHeader(r, TRUE)
        \/ GLAppend(r, TRUE)

SpecGen == InitFresh /\ [][NextGen]_vars

----------------------------------------------------------------------------
(* saveToSheet requests and the customization appends they leave behind *)

NextSave ==
    \/ SVStart(1, MaxSaveReq)
    \/ \E ok \in BOOLEAN :
          \/ SVCheck(1, ok)
          \/ SVAppend(1, ok)
    \/ \E t \in tasks, ok \in BOOLEAN, crash \in BOOLEAN : CustomAppend(t, ok, crash)

SpecSave == InitFresh /\ [][NextSave]_vars

----------------------------------------------------------------------------
(* saveToSheet and order requests, handled one after the other *)

NextOrder ==
    \/ SVStart(1, MaxOrderReq)
    \/ ODStart(1, MaxOrderReq)
    \/ \E ok \in BOOLEAN :
          \/ SVCheck(1, ok)
          \/ SVAppend(1, ok)
          \/ ODRead(1, ok)
    \/ \E t \in tasks, ok \in BOOLEAN, crash \in BOOLEAN : CustomAppend(t, ok, crash)

SpecOrder == InitFresh /\ [][NextOrder]_vars

----------------------------------------------------------------------------
(* The admin routes, for any configured credentials *)

InitAuth ==
    /\ InitCommon
    /\ adminUser \in CredStrings
    /\ adminPass \in CredStrings
    /\ sheetExists = FALSE
    /\ table = <<>>
    /\ fresh = TRUE

NextAuth ==
    \/ Login(1, MaxAuthReq)
    \/ GPStart(1, MaxAuthReq)
    \/ \E ok \in BOOLEAN : GPRead(1, ok)

SpecAuth == InitAuth /\ [][NextAuth]_vars

----------------------------------------------------------------------------
(* The claims *)

AllOk(cs) == \A c \in cs : c[2] = "ok"

\* the rows of t whose column 0 is id, in order
RECURSIVE RowsOf(_, _)
RowsOf(t, id) ==
    IF t = <<>> THEN <<>>
    ELSE IF Len(Head(t)) >= 1 /\ Head(t)[1] = id THEN <<Head(t)>> \o RowsOf(Tail(t), id)
    ELSE RowsOf(Tail(t), id)

\* a decimal numeral and its value
IsNumeral(s) == s # <<>> /\ \A i \in 1..Len(s) : IsDigit(s[i])

RECURSIVE Decimal(_)
Decimal(s) ==
    IF s = <<>> THEN 0
    ELSE 10 * Decimal(SubSeq(s, 1, Len(s) - 1)) + DigitVal(s[Len(s)])

\* the price of the product id in the Products sheet, ids being unique there
InProducts(id) == \E i \in 1..Len(ProductRows) : ProductRows[i][1] = id

PriceOf(id) ==
    Decimal((CHOOSE row \in {ProductRows[i] : i \in 1..Len(ProductRows)} :
                row[1] = id)[13])

RECURSIVE SumOfLines(_)
\* sum of price times quantity over OrderLinks rows
SumOfLines(rows) ==
    IF rows = <<>> THEN 0
    ELSE PriceOf(Head(rows)[2]) * Decimal(Head(rows)[3]) + SumOfLines(Tail(rows))

A1 == <<"a", "1">>
B2 == <<"b", "2">>

\* C1: an update-payment-status request whose spreadsheet calls all succeed
\* leaves OrderLinks with the same rows in the same order: column 4 of every
\* row whose column 0 is the linkId is the paymentStatus, every other row
\* (the header too) is as it was before the request.
UpdateSetsStatusOfLinkOnly ==
    (Quiet /\ last.arg.kind = "update-payment-status" /\ last.resp.code = 200) =>
        /\ Len(table) = Len(last.pre)
        /\ \A i \in 1..Len(last.pre) :
              /\ Cell(table[i], 0) = Cell(last.pre[i], 0)
              /\ IF Cell(last.pre[i], 0) = last.arg.linkId
                 THEN Cell(table[i], 4) = last.arg.status
                 ELSE table[i] = last.pre[i]

\* an update of b2 on the sheet that holds a b2 row of one cell, a blank row
\* and rows of other links
UpdateWitness ==
    /\ Quiet /\ last.arg.kind = "update-payment-status" /\ last.resp.code = 200
    /\ last.arg.linkId = B2
    /\ Len(last.pre) >= 5
    /\ last.pre[4] = <<B2>>
    /\ table[4] = <<B2, Empty, Empty, Empty, last.arg.status>>
    /\ table[2] = last.pre[2]
    /\ table[3] = <<>>

\* C2: a row appended to OrderLinks by a generate-link request that answered
\* 200 is in OrderLinks in every later state, whatever the interleaving of
\* generate-link and update-payment-status requests and whichever call fails
\* (stated here for the states in which no update is between its clear and
\* its write-back, where the sheet is empty for a moment).
LinkRowsNeverDeleted ==
    (\A r \in Slots : pc[r] # "up_write") =>
        \A row \in committed :
            \E j \in 1..Len(table) : \A c \in 0..3 : Cell(table[j], c) = Cell(row, c)

\* C3: concurrent generate-link requests on a spreadsheet without OrderLinks:
\* once a request has answered 200 the sheet exists, its first row is the
\* header and the header occurs once; and no request fails because another
\* one created the sheet first.
GenerateLinkEnsuresHeader ==
    last.arg.kind = "generate-link" =>
        /\ last.resp.code = 200 =>
              /\ sheetExists
              /\ Len(table) >= 1
              /\ table[1] = HeaderRow
              /\ Cardinality({i \in 1..Len(table) : table[i] = HeaderRow}) = 1
        /\ <<"addSheet", "exists">> \notin last.calls

\* C4: a saveToSheet request on a reachable spreadsheet appends as many rows
\* to Orders as products has elements, none when products is empty or absent,
\* and answers 200, also when the body has no customizationDetails.
SaveAppendsRowPerProduct ==
    (Quiet /\ last.arg.kind = "saveToSheet" /\ AllOk(last.calls)) =>
        /\ last.resp.code = 200
        /\ Len(orders) = Len(last.pre) + Len(last.arg.products.items)

\* C5: login with the configured credentials answers the token
\* base64(username:password), and GET /api/products is let through if and
\* only if its Authorization header is "Bearer " and that token; any other
\* header is answered 401 without a read of the spreadsheet.
OnlyTheLoginTokenIsAccepted ==
    LET good == S_Bearer \o Token(adminUser, adminPass) IN
    /\ (/\ last.arg.kind = "login"
        /\ last.arg.username = adminUser
        /\ last.arg.password = adminPass)
           => last.resp.code = 200 /\ last.resp.token = Token(adminUser, adminPass)
    /\ \A r \in Slots : pc[r] = "gp_read" => arg[r].header = good
    /\ last.arg.kind = "products" =>
          IF last.arg.header = good
          THEN Called(last.calls, "get Products")
          ELSE last.resp.code = 401 /\ last.calls = {}

\* C6: every error of a request is caught by its handler: a failed
\* Custom-<key> append is caught too, the process keeps running and every
\* request gets its response.
EveryErrorIsCaught ==
    /\ proc = "running"
    /\ \A r \in Slots : ~Free(r) => proc # "crashed"

\* C7: a generate-link request whose products is missing, no array or an
\* empty array is answered 400 and makes no spreadsheet call: no sheet is
\* created, nothing is appended, the spreadsheet is as it was.
GenerateLinkRejectsNoProducts ==
    [][/\ \A r \in Slots :
             arg'[r].kind = "generate-link" =>
                 arg'[r].products.tag = "array" /\ arg'[r].products.items # <<>>
       /\ (/\ nreq' = nreq + 1
           /\ pc' = pc
           /\ last'.arg.kind = "generate-link")
             => /\ last'.resp.code = 400
                /\ last'.calls = {}
                /\ calls' = calls
                /\ sheetExists' = sheetExists
                /\ table' = table]_vars

\* the empty array rejected on a sheet that holds rows
RejectWitness ==
    /\ last.arg.kind = "generate-link"
    /\ last.arg.products = Arr(<<>>)
    /\ last.resp.code = 400
    /\ Len(table) > 1

\* C8: an order-link request for a linkId that is in column 0 of no OrderLinks
\* row is answered 404 and does not read Products; Products is read only when
\* a row of the linkId was found.
UnknownLinkIs404WithoutJoin ==
    /\ (/\ Quiet
        /\ last.arg.kind = "order-link"
        /\ <<"get OrderLinks", "ok">> \in last.calls)
           => IF RowsOf(table, last.arg.linkId) = <<>>
              THEN last.resp.code = 404 /\ ~Called(last.calls, "get Products")
              ELSE last.resp.code # 404
    /\ (Quiet /\ last.arg.kind = "order-link" /\ Called(last.calls, "get Products"))
           => RowsOf(table, last.arg.linkId) # <<>>
    /\ \A r \in Slots :
          pc[r] = "ol_products" => RowsOf(table, arg[r].linkId) # <<>>

\* the 404 on a sheet that holds rows of other links
UnknownLinkWitness ==
    /\ Quiet /\ last.arg.kind = "order-link" /\ last.resp.code = 404
    /\ last.arg.linkId = A1
    /\ RowsOf(table, B2) # <<>>

\* C9: an order-link request for a linkId with rows, all of known products,
\* answers one product per row in row order, a product of several rows
\* several times, and totalAmount the sum over the rows of price times
\* quantity; when a row names a product that Products does not hold the answer
\* is 500, not 404, and carries no data.
OrderLinkTotalIsSumOfLines ==
    LET rows == RowsOf(table, last.arg.linkId) IN
    (/\ Quiet
     /\ last.arg.kind = "order-link"
     /\ <<"get OrderLinks", "ok">> \in last.calls
     /\ rows # <<>>)
        => IF \A i \in 1..Len(rows) : InProducts(Cell(rows[i], 1))
           THEN (/\ <<"get Products", "ok">> \in last.calls
                 /\ \A i \in 1..Len(rows) : IsNumeral(Cell(rows[i], 2)))
                    => /\ last.resp.code = 200
                       /\ Len(last.resp.products) = Len(rows)
                       /\ \A i \in 1..Len(rows) :
                             /\ last.resp.products[i].id = rows[i][2]
                             /\ last.resp.products[i].price = Num(PriceOf(rows[i][2]))
                             /\ last.resp.products[i].quantity = Num(Decimal(rows[i][3]))
                       /\ last.resp.total = Num(SumOfLines(rows))
           ELSE /\ last.resp.code = 500
                /\ last.resp.products = <<>>
                /\ last.resp.total = Num(0)

\* price 100 times 3 of the row the sheet held, and the two lines (100, 2)
\* and (50, 1) of a generated link with the same id: P1 twice
OrderLinkTotalWitness ==
    /\ Quiet /\ last.arg.kind = "order-link" /\ last.resp.code = 200
    /\ Len(last.resp.products) = 3
    /\ last.resp.products[1].id = P1
    /\ last.resp.products[2].id = P1
    /\ last.resp.total = Num(550)

\* C10: after generate-link and update-payment-status requests handled one
\* after the other, every call succeeding, an order-link request for a
\* generated linkId answers paymentStatus "pending" when no update of that
\* link was answered, and else the paymentStatus of the latest one; updates
\* of other linkIds do not change it.  (An update counts for a link that
\* exists when it runs, not for an id that generate-link returns later.)
StatusIsLatestUpdateOfLink ==
    (/\ Quiet /\ clean /\ fresh
     /\ last.arg.kind = "order-link"
     /\ last.arg.linkId \in LinkIds
     /\ last.resp.code = 200)
        => last.resp.status = IF lastStatus[last.arg.linkId] = Empty THEN S_pending
                              ELSE lastStatus[last.arg.linkId]

\* a1 set to failed and the header's id to paid, then a1 read
StatusWitness ==
    /\ Quiet /\ clean /\ fresh
    /\ last.arg.kind = "order-link" /\ last.resp.code = 200
    /\ last.arg.linkId = A1
    /\ last.resp.status = S_failed
    /\ lastStatus[S_LinkID] = S_paid

\* the 33 positions of an order object, in the order of the columns they are
\* decoded from
ReadBack(data) ==
    << data.orderId, data.pickUpCode, data.phoneNumber, data.firstName,
       data.lastName, data.email,
       data.shippingAddress.addressLine1, data.shippingAddress.addressLine2,
       data.shippingAddress.pincode, data.shippingAddress.city,
       data.shippingAddress.state, data.shippingAddress.country,
       data.billingAddress.addressLine1, data.billingAddress.addressLine2,
       data.billingAddress.pincode, data.billingAddress.city,
       data.billingAddress.state, data.billingAddress.country,
       data.product.name, data.product.unitPrice, data.product.quantity,
       data.product.SKU,
       data.payment.method, data.payment.COD, data.payment.totalAmount,
       data.shipping.weight, data.shipping.dimensions.length,
       data.shipping.dimensions.breadth, data.shipping.dimensions.height,
       data.shipping.courierId, data.payment.paymentId,
       data.isMultipleProductOrder, data.timestamp >>

\* the positions that are read back as numbers
NumberAt == {19, 20, 24, 25, 26, 27, 28}

\* the values saved in a row, the numerals as the numbers they denote
SavedValues(row) ==
    [j \in 1..Len(row) |->
        IF j - 1 \in NumberAt /\ IsNumeral(row[j]) THEN Num(Decimal(row[j]))
        ELSE row[j]]

IsPrefix(a, b) == Len(a) <= Len(b) /\ SubSeq(b, 1, Len(a)) = a

\* C11: after saveToSheet requests that were all answered 200, an order
\* request whose read succeeded answers 404 if and only if no appended row
\* has the orderId in column 0, and otherwise answers the record of the
\* earliest such row, each of the 33 positions saveToSheet wrote (orderId at
\* 0 to timestamp at 32) read back with the value that was saved; and the
\* rows on the sheet when a request arrived are still there, unchanged, when
\* it is answered.
OrderReadsBackFirstSavedRow ==
    /\ last.arg.kind \in {"saveToSheet", "order"} => IsPrefix(last.pre, orders)
    /\ (Quiet /\ clean /\ saved /\ last.arg.kind = "order") =>
          LET at == Find(orders, last.arg.orderId) IN
          IF at = 0 THEN last.resp.code = 404
          ELSE /\ last.resp.code = 200
               /\ ReadBack(last.resp.data) = SavedValues(orders[at])

====
